---- MODULE Spec2Model ----
(***************************************************************************)
(* tmp_env (src/src/lib.rs): scoped guards over process-global state.      *)
(*   CurrentEnv  set_var / remove_var, restored by Drop                     *)
(*   CurrentDir  set_current_dir, restored by Drop                          *)
(*   TmpDir      create_temp_dir, removed by Drop                           *)
(* The process environment, the working directory and the filesystem are   *)
(* the shared state; guards are values owned by the scope that made them.   *)
(***************************************************************************)
EXTENDS Naturals, Sequences, FiniteSets, TLC

VARIABLES env, cwd, dirs, files, guards, mode, panicking, last

vars == <<env, cwd, dirs, files, guards, mode, panicking, last>>

----------------------------------------------------------------------------
(* Bounds of the model. *)

\* guards created in one run
MaxGuards == 3

\* tests the harness runs at the same time (--test-threads)
TestThreads == 2

----------------------------------------------------------------------------
(* Values. An OsString is a sequence of bytes; a String is an OsString     *)
(* that is valid UTF-8.  97 is 'a'; 255 is a byte no UTF-8 text contains.   *)

\* the values the model draws: "", "a" and one byte that is not UTF-8
OsStrings == {<<>>, <<97>>, <<255>>}

None == [some |-> FALSE, val |-> <<>>]

Some(v) == [some |-> TRUE, val |-> v]

\* String::from_utf8 on the bytes this model draws: every byte below 128 is
\* a one-byte character, and 255 starts no UTF-8 sequence.
IsUtf8(s) == \A i \in 1..Len(s) : s[i] < 128

Keys == {"TEST_TMP_ENV", "TEST_TMP_ENV_PREVIOUS"}

\* std::env::var_os(key): the value as the OS holds it.
var_os(e, key) == e[key]

\* std::env::var(key).ok(): Err(NotPresent) and Err(NotUnicode) both give None.
env_var_ok(e, key) ==
    IF e[key].some /\ IsUtf8(e[key].val) THEN Some(e[key].val) ELSE None

\* std::env::set_var(key, value)
std_set_var(e, key, value) == [e EXCEPT ![key] = Some(value)]

\* std::env::remove_var(key)
std_remove_var(e, key) == [e EXCEPT ![key] = None]

----------------------------------------------------------------------------
(* Paths are sequences of components; the filesystem is the set of          *)
(* directories and the set of regular files.                                *)

Root == <<>>

\* the directory the tests start in, with its "src" subdirectory
StartDir == <<"repo">>

\* std::env::temp_dir()
temp_dir == <<"tmp">>

\* the strings random_path() can return (two of the 62^10)
RandStrings == {"n1", "n2"}

IsPrefix(p, q) == Len(p) <= Len(q) /\ SubSeq(q, 1, Len(p)) = p

\* what lies below the path p among the paths S
Inside(S, p) == {q \in S : IsPrefix(p, q) /\ q # p}

Parent(p) == IF p = <<>> THEN <<>> ELSE SubSeq(p, 1, Len(p) - 1)

Abs(comps) == [abs |-> TRUE, comps |-> comps]

Rel(comps) == [abs |-> FALSE, comps |-> comps]

NoPath == <<"?">>

\* what a temporary directory can hold in the model: a file "f", a
\* subdirectory "d"
Entries == {"f", "d"}

\* the paths a TmpDir can come to name
TmpPaths ==
    {temp_dir} \cup {Append(temp_dir, n) : n \in RandStrings}
        \cup {<<temp_dir[1], n, c>> : n \in RandStrings, c \in Entries}

----------------------------------------------------------------------------
(* The operating system calls the guards make. *)

RECURSIVE Walk(_, _, _)
\* Path resolution as chdir(2) does it: every component is looked up in the
\* directory reached so far; ".." goes to the parent (the root is its own).
Walk(at, comps, d) ==
    IF at \notin d THEN [ok |-> FALSE, path |-> at]
    ELSE IF comps = <<>> THEN [ok |-> TRUE, path |-> at]
    ELSE IF Head(comps) = ".." THEN Walk(Parent(at), Tail(comps), d)
    ELSE Walk(Append(at, Head(comps)), Tail(comps), d)

\* std::env::current_dir(): getcwd fails once the directory has been removed.
current_dir(c) == [ok |-> c.alive, path |-> c.path]

\* std::env::set_current_dir(path): a relative path starts at the working
\* directory, which must still exist.
std_set_current_dir(c, d, p) ==
    LET r == IF p.abs THEN Walk(Root, p.comps, d)
             ELSE IF c.alive THEN Walk(c.path, p.comps, d)
             ELSE [ok |-> FALSE, path |-> c.path]
    IN  IF r.ok THEN [ok |-> TRUE, cwd |-> [alive |-> TRUE, path |-> r.path]]
        ELSE [ok |-> FALSE, cwd |-> c]

\* as if the call were std::fs::create_dir_all(path)
create_dir_all(d, f, p) ==
    IF Parent(p) \in d /\ p \notin f
    THEN [ok |-> TRUE, dirs |-> d \cup {p}]
    ELSE [ok |-> FALSE, dirs |-> d]

\* std::fs::create_dir(path): the parent must exist and the path must not.
create_dir(d, f, p) ==
    IF Parent(p) \in d /\ p \notin d /\ p \notin f
    THEN [ok |-> TRUE, dirs |-> d \cup {p}]
    ELSE [ok |-> FALSE, dirs |-> d]

\* as if the removal did not descend into subdirectories
remove_dir_shallow(d, f, p) ==
    IF p \in d
    THEN [ok |-> TRUE, dirs |-> d \ {p}, files |-> {q \in f : Parent(q) # p}]
    ELSE [ok |-> FALSE, dirs |-> d, files |-> f]

\* std::fs::remove_dir_all(path): the path must be a directory; it goes with
\* everything below it.
remove_dir_all(d, f, p) ==
    IF p \in d
    THEN [ok |-> TRUE,
          dirs |-> {q \in d : ~IsPrefix(p, q)},
          files |-> {q \in f : ~IsPrefix(p, q)}]
    ELSE [ok |-> FALSE, dirs |-> d, files |-> f]

\* The working directory after the directories `d` are what is left: a
\* process whose directory was removed keeps a dead handle.
AfterRemoval(c, d) == [c EXCEPT !.alive = c.alive /\ c.path \in d]

----------------------------------------------------------------------------
(* Guards.  `guards` lists every guard in creation order.  A record holds   *)
(* the fields of the Rust value (key, previous_val for CurrentEnv; path for *)
(* CurrentDir and TmpDir) and, for stating properties, what was true when   *)
(* it was made: pre (the variable before the call), put (what the factory   *)
(* left in the variable), cwd0 / went (the working directory before and     *)
(* after the call), created (the directory create_temp_dir made), clean     *)
(* (nothing else has written the same variable, or changed directory,       *)
(* since) and drops (how often Drop ran).  A thread inside                  *)
(* set_current_dir, between its two calls of std, has a record of status    *)
(* "capturing" with the path it read and the argument (arg) of the call.    *)

Threads == DOMAIN mode

NoCwd == [alive |-> FALSE, path |-> NoPath]

NoGuard ==
    [type |-> "none", owner |-> 0, status |-> "none", drops |-> 0,
     key |-> "", previous_val |-> None, path |-> NoPath,
     pre |-> None, put |-> None, cwd0 |-> NoCwd, went |-> NoPath,
     created |-> NoPath, clean |-> FALSE, arg |-> Rel(<<>>)]

\* CurrentEnv(key.to_owned(), previous_val)
CurrentEnv(t, key, previous_val, pre, put) ==
    [NoGuard EXCEPT !.type = "env", !.owner = t, !.status = "live",
                    !.key = key, !.previous_val = previous_val,
                    !.pre = pre, !.put = put, !.clean = TRUE]

\* CurrentDir(current_dir)
CurrentDir(t, path, cwd0, went) ==
    [NoGuard EXCEPT !.type = "dir", !.owner = t, !.status = "live",
                    !.path = path, !.cwd0 = cwd0, !.went = went,
                    !.clean = TRUE]

\* TmpDir(tmp_path)
TmpDir(t, path) ==
    [NoGuard EXCEPT !.type = "tmp", !.owner = t, !.status = "live",
                    !.path = path, !.created = path]

\* What is left of a guard once Drop has run on it.
Dropped(rec, res) ==
    [NoGuard EXCEPT !.type = rec.type, !.owner = rec.owner,
                    !.status = IF res = "ok" THEN "released" ELSE "panicked",
                    !.drops = rec.drops + 1, !.created = rec.created]

Live(t) == {g \in 1..Len(guards) : guards[g].owner = t /\ guards[g].status = "live"}

LiveOf(type) == {g \in 1..Len(guards) : guards[g].type = type /\ guards[g].status = "live"}

\* Another write to `key`: the live guards on it no longer see their value.
TouchEnv(gs, key) ==
    [g \in 1..Len(gs) |->
        IF gs[g].type = "env" /\ gs[g].key = key
        THEN [gs[g] EXCEPT !.clean = FALSE] ELSE gs[g]]

\* Another change of directory.
TouchDir(gs) ==
    [g \in 1..Len(gs) |->
        IF gs[g].type = "dir" THEN [gs[g] EXCEPT !.clean = FALSE] ELSE gs[g]]

\* `last` is the call that led to the current state: the operation, the
\* thread, the guard it made or dropped, how it ended ("ok", "err" for an
\* Err(io::Error), "panic"), and what held just before it: the guard
\* dropped (rec), the working directory (cwd0), the number of guards (n0),
\* the path argument (arg) and a set of paths (paths0: for a drop of a
\* TmpDir what its directory held, for create_temp_dir the directories of
\* the live TmpDirs) and, for a drop of a TmpDir, whether its path named a
\* directory (isdir0).
NoEvent ==
    [op |-> "init", t |-> 0, g |-> 0, res |-> "ok", rec |-> NoGuard,
     cwd0 |-> NoCwd, arg |-> Rel(<<>>), n0 |-> 0, paths0 |-> {},
     isdir0 |-> FALSE]

Event(op, t, g, res) == [NoEvent EXCEPT !.op = op, !.t = t, !.g = g, !.res = res]

----------------------------------------------------------------------------
(* CurrentEnv *)

\* as if the capture were std::env::var(key).unwrap_or_default()
previous_val_or_default(e, key) ==
    IF e[key].some /\ IsUtf8(e[key].val) THEN Some(e[key].val) ELSE Some(<<>>)

\* lines 75 and 95: let previous_val = std::env::var(key).ok();
previous_val_of(e, key) == env_var_ok(e, key)

\* pub fn set_var(key, value) -> CurrentEnv
set_var(t, key, value) ==
    /\ mode[t] = "running"
    /\ Len(guards) < MaxGuards
    /\ LET previous_val == previous_val_of(env, key)
       IN  /\ env' = std_set_var(env, key, value)
           /\ guards' = Append(TouchEnv(guards, key),
                               CurrentEnv(t, key, previous_val,
                                          var_os(env, key), Some(value)))
    /\ last' = [Event("set_var", t, Len(guards) + 1, "ok") EXCEPT !.n0 = Len(guards)]
    /\ UNCHANGED <<cwd, dirs, files, mode, panicking>>

\* pub fn remove_var(key) -> CurrentEnv
remove_var(t, key) ==
    /\ mode[t] = "running"
    /\ Len(guards) < MaxGuards
    /\ LET previous_val == previous_val_of(env, key)
       IN  /\ env' = std_remove_var(env, key)
           /\ guards' = Append(TouchEnv(guards, key),
                               CurrentEnv(t, key, previous_val,
                                          var_os(env, key), None))
    /\ last' = [Event("remove_var", t, Len(guards) + 1, "ok") EXCEPT !.n0 = Len(guards)]
    /\ UNCHANGED <<cwd, dirs, files, mode, panicking>>

\* as if Drop wrote self.1.take().unwrap_or_default() back
drop_CurrentEnv_sets_empty(e, rec) ==
    IF rec.previous_val.some
    THEN std_set_var(e, rec.key, rec.previous_val.val)
    ELSE std_set_var(e, rec.key, <<>>)

\* as if Drop wrote what it captured to every variable of the process
drop_CurrentEnv_every_key(e, rec) == [k \in DOMAIN e |-> rec.previous_val]

\* impl Drop for CurrentEnv: the environment after the match on self.1.take()
drop_CurrentEnv(e, rec) ==
    IF rec.previous_val.some
    THEN std_set_var(e, rec.key, rec.previous_val.val)
    ELSE std_remove_var(e, rec.key)

----------------------------------------------------------------------------
(* CurrentDir *)

\* as if the second `?` were missing: the result of the switch is ignored
set_current_dir_unchecked(c, d, p) ==
    LET cur == current_dir(c)
        sw  == std_set_current_dir(c, d, p)
    IN  IF ~cur.ok THEN [ok |-> FALSE, cwd |-> c, captured |-> NoPath]
        ELSE [ok |-> TRUE, cwd |-> sw.cwd, captured |-> cur.path]

\* pub fn set_current_dir(path): current_dir()?, set_current_dir(&path)?,
\* Ok(CurrentDir(current_dir)).  `captured` is the path the guard holds.
set_current_dir_result(c, d, p) ==
    LET cur == current_dir(c)
        sw  == std_set_current_dir(c, d, p)
    IN  IF ~cur.ok THEN [ok |-> FALSE, cwd |-> c, captured |-> NoPath]
        ELSE IF ~sw.ok THEN [ok |-> FALSE, cwd |-> c, captured |-> NoPath]
        ELSE [ok |-> TRUE, cwd |-> sw.cwd, captured |-> cur.path]

\* The paths callers hand to set_current_dir: "src" and ".." as the tests
\* and doc tests do, and the path of a temporary directory (&*tmp_dir).
CdArgs ==
    {Rel(<<"src">>), Rel(<<"..">>)}
        \cup {Abs(guards[g].path) : g \in LiveOf("tmp")}

set_current_dir(t, p) ==
    /\ mode[t] = "running"
    /\ LET r == set_current_dir_result(cwd, dirs, p)
       IN  /\ r.ok => Len(guards) < MaxGuards
           /\ cwd' = r.cwd
           /\ guards' = IF r.ok
                        THEN Append(TouchDir(guards),
                                    CurrentDir(t, r.captured, cwd, r.cwd.path))
                        ELSE guards
           /\ last' = [Event("set_current_dir", t,
                             IF r.ok THEN Len(guards) + 1 ELSE 0,
                             IF r.ok THEN "ok" ELSE "err")
                         EXCEPT !.cwd0 = cwd, !.arg = p, !.n0 = Len(guards)]
    /\ UNCHANGED <<env, dirs, files, mode, panicking>>

\* as if Drop went up one level instead of back to the captured path
drop_CurrentDir_parent(c, d, rec) == std_set_current_dir(c, d, Rel(<<"..">>))

\* as if Drop dropped the result: let _ = std::env::set_current_dir(&self.0)
drop_CurrentDir_ignores_error(c, d, rec) ==
    [ok |-> TRUE, cwd |-> std_set_current_dir(c, d, Abs(rec.path)).cwd]

\* impl Drop for CurrentDir: std::env::set_current_dir(&self.0).expect(..)
drop_CurrentDir(c, d, rec) == std_set_current_dir(c, d, Abs(rec.path))

----------------------------------------------------------------------------
(* TmpDir *)

\* fn random_path(): ten alphanumeric characters from thread_rng()
random_path == RandStrings

\* pub fn create_temp_dir(): create_dir(temp_dir().join(random_path()))?
create_temp_dir(t) ==
    /\ mode[t] = "running"
    /\ \E name \in random_path :
         LET tmp_path == Append(temp_dir, name)
             r == create_dir(dirs, files, tmp_path)
         IN  /\ r.ok => Len(guards) < MaxGuards
             /\ dirs' = r.dirs
             /\ guards' = IF r.ok THEN Append(guards, TmpDir(t, tmp_path))
                          ELSE guards
             /\ last' = [Event("create_temp_dir", t,
                               IF r.ok THEN Len(guards) + 1 ELSE 0,
                               IF r.ok THEN "ok" ELSE "err")
                           EXCEPT !.arg = Abs(tmp_path), !.n0 = Len(guards),
                                  !.paths0 = {guards[h].created : h \in
                                      {h \in LiveOf("tmp") : guards[h].created \in dirs}}]
    /\ UNCHANGED <<env, cwd, files, mode, panicking>>

\* as if the guard held temp_dir() and not the directory made in it
drop_TmpDir_temp_dir(d, f, rec) == remove_dir_all(d, f, Parent(rec.path))

\* as if Drop dropped the result: let _ = std::fs::remove_dir_all(&self.0)
drop_TmpDir_ignores_error(d, f, rec) ==
    [remove_dir_all(d, f, rec.path) EXCEPT !.ok = TRUE]

\* impl Drop for TmpDir: std::fs::remove_dir_all(&self.0).expect(..)
drop_TmpDir(d, f, rec) == remove_dir_all(d, f, rec.path)

\* impl DerefMut for TmpDir: the caller holds &mut PathBuf and edits it
\* (PathBuf::push of a name, PathBuf::pop).
PathBufEdits(p) == ({Append(p, c) : c \in Entries} \cup {Parent(p)}) \cap TmpPaths

deref_mut(t, g) ==
    /\ mode[t] = "running"
    /\ g \in Live(t) /\ guards[g].type = "tmp"
    /\ \E q \in PathBufEdits(guards[g].path) :
         guards' = [guards EXCEPT ![g].path = q]
    /\ last' = [Event("deref_mut", t, g, "ok") EXCEPT !.n0 = Len(guards)]
    /\ UNCHANGED <<env, cwd, dirs, files, mode, panicking>>

\* impl Deref for TmpDir: the caller reads the path and does I/O inside the
\* directory: a file "f" or a subdirectory "d".
deref_io(t, g) ==
    /\ mode[t] = "running"
    /\ g \in Live(t) /\ guards[g].type = "tmp"
    /\ guards[g].path \in dirs
    /\ \E c \in Entries :
         LET q == Append(guards[g].path, c)
         IN  /\ q \in TmpPaths
             /\ q \notin dirs \cup files
             /\ dirs' = IF c = "d" THEN dirs \cup {q} ELSE dirs
             /\ files' = IF c = "f" THEN files \cup {q} ELSE files
    /\ last' = [Event("deref_io", t, g, "ok") EXCEPT !.n0 = Len(guards)]
    /\ UNCHANGED <<env, cwd, guards, mode, panicking>>

----------------------------------------------------------------------------
(* Drop.  A guard is dropped by the caller (drop(guard), or a temporary at  *)
(* the end of its statement) or when control leaves its scope; a scope is   *)
(* left by falling off its end, by an early return or by a panic, and its   *)
(* live guards are then dropped newest first.  .expect() in a Drop panics;  *)
(* a panic while the thread is already unwinding aborts the process.        *)

\* The process state after Drop::drop has run on `rec`.
DropOutcome(rec) ==
    IF rec.type = "env" THEN
        [res |-> "ok", env |-> drop_CurrentEnv(env, rec), cwd |-> cwd,
         dirs |-> dirs, files |-> files]
    ELSE IF rec.type = "dir" THEN
        LET r == drop_CurrentDir(cwd, dirs, rec)
        IN  [res |-> IF r.ok THEN "ok" ELSE "panic", env |-> env,
             cwd |-> r.cwd, dirs |-> dirs, files |-> files]
    ELSE
        LET r == drop_TmpDir(dirs, files, rec)
        IN  [res |-> IF r.ok THEN "ok" ELSE "panic", env |-> env,
             cwd |-> AfterRemoval(cwd, r.dirs), dirs |-> r.dirs,
             files |-> r.files]

Touched(gs, rec, o) ==
    IF rec.type = "env" THEN TouchEnv(gs, rec.key)
    ELSE IF rec.type = "dir" /\ o.res = "ok" THEN TouchDir(gs)
    ELSE gs

RunDrop(t, g, o) ==
    /\ env' = o.env
    /\ cwd' = o.cwd
    /\ dirs' = o.dirs
    /\ files' = o.files
    /\ guards' = [Touched(guards, guards[g], o) EXCEPT ![g] = Dropped(guards[g], o.res)]
    /\ last' = [Event("drop", t, g, o.res)
                  EXCEPT !.rec = guards[g], !.cwd0 = cwd, !.n0 = Len(guards),
                         !.paths0 = IF guards[g].type = "tmp"
                                    THEN Inside(dirs \cup files, guards[g].path)
                                    ELSE {},
                         !.isdir0 = (guards[g].type = "tmp" /\ guards[g].path \in dirs)]

Newest(S) == CHOOSE g \in S : \A h \in S : h <= g

\* drop(guard) in the body of the scope
drop_now(t, g) ==
    /\ mode[t] = "running"
    /\ g \in Live(t)
    /\ LET o == DropOutcome(guards[g])
       IN  /\ RunDrop(t, g, o)
           /\ mode' = IF o.res = "panic" THEN [mode EXCEPT ![t] = "unwinding"] ELSE mode
           /\ panicking' = IF o.res = "panic" THEN [panicking EXCEPT ![t] = TRUE]
                           ELSE panicking

\* control leaves the scope: its end, a return, or a panic in the body
leave_scope(t, how) ==
    /\ mode[t] = "running"
    /\ mode' = [mode EXCEPT ![t] = "unwinding"]
    /\ panicking' = [panicking EXCEPT ![t] = (how = "panic")]
    /\ last' = [Event(how, t, 0, "ok") EXCEPT !.n0 = Len(guards)]
    /\ UNCHANGED <<env, cwd, dirs, files, guards>>

\* the next guard of the scope is dropped, newest first
unwind(t) ==
    /\ mode[t] = "unwinding"
    /\ Live(t) # {}
    /\ LET g == Newest(Live(t))
           o == DropOutcome(guards[g])
       IN  /\ RunDrop(t, g, o)
           /\ mode' = IF o.res = "panic" /\ panicking[t]
                      THEN [u \in Threads |-> "aborted"] ELSE mode
           /\ panicking' = IF o.res = "panic" THEN [panicking EXCEPT ![t] = TRUE]
                           ELSE panicking

\* every guard of the scope has been dropped
scope_left(t) ==
    /\ mode[t] = "unwinding"
    /\ Live(t) = {}
    /\ mode' = [mode EXCEPT ![t] = "done"]
    /\ last' = [Event("done", t, 0, "ok") EXCEPT !.n0 = Len(guards)]
    /\ UNCHANGED <<env, cwd, dirs, files, guards, panicking>>

----------------------------------------------------------------------------

\* The environment a run starts from: TEST_TMP_ENV is unset, as the tests
\* expect to find it; TEST_TMP_ENV_PREVIOUS is unset or holds any value.
EnvStates ==
    {e \in [Keys -> {None} \cup {Some(v) : v \in OsStrings}] :
        e["TEST_TMP_ENV"] = None}

InitDirs == {Root, StartDir, Append(StartDir, "src"), temp_dir}

Init ==
    /\ env \in EnvStates
    /\ cwd = [alive |-> TRUE, path |-> StartDir]
    /\ dirs = InitDirs
    /\ files = {}
    /\ guards = <<>>
    /\ mode = [t \in {1} |-> "running"]
    /\ panicking = [t \in {1} |-> FALSE]
    /\ last = NoEvent

Next ==
    \/ \E t \in Threads, key \in Keys, value \in OsStrings : set_var(t, key, value)
    \/ \E t \in Threads, key \in Keys : remove_var(t, key)
    \/ \E t \in Threads, p \in CdArgs : set_current_dir(t, p)
    \/ \E t \in Threads : create_temp_dir(t)
    \/ \E t \in Threads : \E g \in Live(t) : deref_mut(t, g)
    \/ \E t \in Threads : \E g \in Live(t) : deref_io(t, g)
    \/ \E t \in Threads : \E g \in Live(t) : drop_now(t, g)
    \/ \E t \in Threads, how \in {"end", "return", "panic"} : leave_scope(t, how)
    \/ \E t \in Threads : unwind(t)
    \/ \E t \in Threads : scope_left(t)

\* every operation of the crate in one scope
Spec == Init /\ [][Next]_vars

\* The environment, the working directory and the temporary directories
\* are checked by component: the environment variables share nothing with
\* the other two, and the working directory meets the temporary
\* directories only where one is removed under the process.

NextEnv ==
    \/ \E t \in Threads, key \in Keys, value \in OsStrings : set_var(t, key, value)
    \/ \E t \in Threads, key \in Keys : remove_var(t, key)
    \/ \E t \in Threads : \E g \in Live(t) : drop_now(t, g)
    \/ \E t \in Threads, how \in {"end", "return", "panic"} : leave_scope(t, how)
    \/ \E t \in Threads : unwind(t)
    \/ \E t \in Threads : scope_left(t)

SpecEnv == Init /\ [][NextEnv]_vars

NextDir ==
    \/ \E t \in Threads, p \in CdArgs : set_current_dir(t, p)
    \/ \E t \in Threads : create_temp_dir(t)
    \/ \E t \in Threads : \E g \in Live(t) : drop_now(t, g)
    \/ \E t \in Threads, how \in {"end", "return", "panic"} : leave_scope(t, how)
    \/ \E t \in Threads : unwind(t)
    \/ \E t \in Threads : scope_left(t)

NextTmp ==
    \/ \E t \in Threads : create_temp_dir(t)
    \/ \E t \in Threads : \E g \in Live(t) : deref_mut(t, g)
    \/ \E t \in Threads : \E g \in Live(t) : deref_io(t, g)
    \/ \E t \in Threads : \E g \in Live(t) : drop_now(t, g)
    \/ \E t \in Threads, how \in {"end", "return", "panic"} : leave_scope(t, how)
    \/ \E t \in Threads : unwind(t)
    \/ \E t \in Threads : scope_left(t)

\* CurrentDir is checked from either directory of the repository, with
\* create_temp_dir there to make and remove directories under the process.
InitDir ==
    /\ env = [k \in Keys |-> None]
    /\ cwd \in {[alive |-> TRUE, path |-> StartDir],
                [alive |-> TRUE, path |-> Append(StartDir, "src")]}
    /\ dirs = InitDirs
    /\ files = {}
    /\ guards = <<>>
    /\ mode = [t \in {1} |-> "running"]
    /\ panicking = [t \in {1} |-> FALSE]
    /\ last = NoEvent

InitTmp ==
    /\ env = [k \in Keys |-> None]
    /\ cwd = [alive |-> TRUE, path |-> StartDir]
    /\ dirs = InitDirs
    /\ files = {}
    /\ guards = <<>>
    /\ mode = [t \in {1} |-> "running"]
    /\ panicking = [t \in {1} |-> FALSE]
    /\ last = NoEvent

SpecDir == InitDir /\ [][NextDir]_vars

SpecTmp == InitTmp /\ [][NextTmp]_vars

----------------------------------------------------------------------------
(* Properties of CurrentEnv, checked under SpecEnv. *)

\* a CurrentEnv guard that is live and whose variable nothing else has
\* written since the guard was made
Undisturbed(g) ==
    /\ guards[g].type = "env"
    /\ guards[g].status = "live"
    /\ guards[g].clean

\* the last call dropped a CurrentEnv guard
DroppedEnv == last.op = "drop" /\ last.rec.type = "env"

\* C1: a key that was unset when set_var(k, v) was called reads v while the
\* guard is live and undisturbed, and is absent from the environment (not
\* present with an empty value) right after the guard is dropped.
C1_SetVarOnUnsetKey ==
    /\ \A g \in 1..Len(guards) :
         (Undisturbed(g) /\ guards[g].put.some /\ ~guards[g].pre.some)
            => var_os(env, guards[g].key) = guards[g].put
    /\ (DroppedEnv /\ last.rec.put.some /\ ~last.rec.pre.some)
            => var_os(env, last.rec.key) = None

C1_Witness ==
    /\ DroppedEnv /\ last.rec.put.some /\ ~last.rec.pre.some
    /\ last.rec.clean
    /\ last.rec.put.val # <<>>
    /\ var_os(env, last.rec.key) = None

\* C2: a key that held p when set_var(k, v) was called reads v while the
\* guard is live and undisturbed, and reads exactly p right after the guard
\* is dropped.
C2_SetVarRestoresPrior ==
    /\ \A g \in 1..Len(guards) :
         (Undisturbed(g) /\ guards[g].put.some /\ guards[g].pre.some)
            => var_os(env, guards[g].key) = guards[g].put
    /\ (DroppedEnv /\ last.rec.put.some /\ last.rec.pre.some)
            => var_os(env, last.rec.key) = last.rec.pre

\* Both factories: a prior value that is valid UTF-8 (the empty string
\* included) is read back right after the guard is dropped.
RestoresUtf8Prior ==
    (DroppedEnv /\ last.rec.pre.some /\ IsUtf8(last.rec.pre.val))
        => var_os(env, last.rec.key) = last.rec.pre

\* C3: a key that held p when remove_var(k) was called reads as unset while
\* the guard is live and undisturbed, and reads p right after the guard is
\* dropped.
C3_RemoveVarRestoresPrior ==
    /\ \A g \in 1..Len(guards) :
         (Undisturbed(g) /\ ~guards[g].put.some /\ guards[g].pre.some)
            => var_os(env, guards[g].key) = None
    /\ (DroppedEnv /\ ~last.rec.put.some /\ last.rec.pre.some)
            => var_os(env, last.rec.key) = last.rec.pre

\* C4: remove_var(k) on a key that is unset returns a guard (it has no
\* error path), the key reads as unset while the guard is live and
\* undisturbed, and it is still unset right after the guard is dropped.
C4_RemoveVarOnUnsetKey ==
    /\ last.op = "remove_var"
            => /\ last.res = "ok"
               /\ Len(guards) = last.n0 + 1
               /\ guards[last.g].status = "live"
               /\ var_os(env, guards[last.g].key) = None
    /\ \A g \in 1..Len(guards) :
         (Undisturbed(g) /\ ~guards[g].put.some /\ ~guards[g].pre.some)
            => var_os(env, guards[g].key) = None
    /\ (DroppedEnv /\ ~last.rec.put.some /\ ~last.rec.pre.some)
            => var_os(env, last.rec.key) = None

C4_Witness ==
    /\ DroppedEnv /\ ~last.rec.put.some /\ ~last.rec.pre.some
    /\ last.rec.clean
    /\ var_os(env, last.rec.key) = None

\* C5: the value a guard captured is the state of the key when the factory
\* was called (None exactly when it was unset, Some(v) when it held v), and
\* dropping the guard puts that state back.
C5_CaptureIsPriorState ==
    /\ \A g \in 1..Len(guards) :
         (guards[g].type = "env" /\ guards[g].status = "live")
            => guards[g].previous_val = guards[g].pre
    /\ DroppedEnv => var_os(env, last.rec.key) = last.rec.pre

----------------------------------------------------------------------------
(* Properties of CurrentDir, checked under SpecDir. *)

\* where chdir from the directory A with the argument p must end
Resolved(A, p) ==
    IF p.abs THEN p.comps
    ELSE IF p.comps = <<"..">> THEN Parent(A)
    ELSE A \o p.comps

DroppedDir == last.op = "drop" /\ last.rec.type = "dir"

\* C6: after a successful set_current_dir(d) from the directory A the
\* working directory is d resolved against A and the guard holds A; it
\* stays d while the guard is live and no other change of directory has
\* happened; right after a drop of the guard that returns, the working
\* directory is A again.
C6_CurrentDirRestored ==
    /\ (last.op = "set_current_dir" /\ last.res = "ok")
            => /\ cwd.alive
               /\ cwd.path = Resolved(last.cwd0.path, last.arg)
               /\ guards[last.g].path = last.cwd0.path
    /\ \A g \in 1..Len(guards) :
         (guards[g].type = "dir" /\ guards[g].status = "live" /\ guards[g].clean)
            => cwd.path = guards[g].went
    /\ (DroppedDir /\ last.res = "ok") => cwd = last.rec.cwd0

\* a guard made inside a temporary directory (A is not where the run began)
\* has been dropped and the process is back in A
C6_Witness ==
    /\ DroppedDir /\ last.res = "ok" /\ last.rec.clean
    /\ Parent(last.rec.cwd0.path) = temp_dir
    /\ last.rec.went # last.rec.cwd0.path
    /\ last.cwd0.path = last.rec.went
    /\ cwd = last.rec.cwd0

\* C7: a set_current_dir(path) whose read of the working directory fails,
\* or whose switch fails, returns Err, adds no guard and leaves the working
\* directory as it was.
C7_FailedSetCurrentDir ==
    last.op = "set_current_dir"
        => LET failed == \/ ~current_dir(last.cwd0).ok
                         \/ ~std_set_current_dir(last.cwd0, dirs, last.arg).ok
           IN  /\ failed <=> last.res = "err"
               /\ last.res = "err"
                    => /\ last.g = 0
                       /\ Len(guards) = last.n0
                       /\ cwd = last.cwd0

\* the read fails (the working directory was removed) although the target
\* exists
C7_Witness ==
    /\ last.op = "set_current_dir" /\ last.res = "err"
    /\ ~last.cwd0.alive
    /\ last.arg.abs /\ last.arg.comps \in dirs
    /\ cwd = last.cwd0

\* the switch fails: the target is no directory
C7_WitnessNoTarget ==
    /\ last.op = "set_current_dir" /\ last.res = "err"
    /\ last.cwd0.alive
    /\ cwd = last.cwd0

----------------------------------------------------------------------------
(* Properties of TmpDir, checked under SpecTmp. *)

DroppedTmp == last.op = "drop" /\ last.rec.type = "tmp"

\* C8: right after a successful create_temp_dir() the path the guard holds
\* is a directory, holds nothing and is a child of temp_dir(); right after
\* a drop of the guard that returns (or any drop of a guard that still holds
\* the path it was made with) nothing exists at or below the path it held.
C8_TempDirLifecycle ==
    /\ (last.op = "create_temp_dir" /\ last.res = "ok")
            => LET p == guards[last.g].path
               IN  /\ p \in dirs
                   /\ Inside(dirs \cup files, p) = {}
                   /\ Parent(p) = temp_dir
    /\ (DroppedTmp /\ (last.res = "ok" \/ last.rec.path = last.rec.created))
            => \A q \in dirs \cup files : ~IsPrefix(last.rec.path, q)

\* the directory held a file and a subdirectory when the guard was dropped
C8_Witness ==
    /\ DroppedTmp /\ last.res = "ok"
    /\ last.rec.path = last.rec.created
    /\ \E q \in last.paths0 : Parent(q) = last.rec.path /\ q[Len(q)] = "f"
    /\ \E q \in last.paths0 : Parent(q) = last.rec.path /\ q[Len(q)] = "d"
    /\ \A q \in dirs \cup files : ~IsPrefix(last.rec.path, q)

TmpGuards == {g \in 1..Len(guards) : guards[g].type = "tmp"}

\* C9 as claimed: no two calls of create_temp_dir, live or released, have
\* returned the same path.
C9_AllPathsDistinct ==
    \A g, h \in TmpGuards : g # h => guards[g].created # guards[h].created

\* C9 as amended: the path of a successful create_temp_dir() did not exist
\* before the call, so it is not the directory of any live guard whose
\* directory existed when the call was made.
C9_DistinctFromLive ==
    (last.op = "create_temp_dir" /\ last.res = "ok")
        => guards[last.g].created \notin last.paths0

\* a second guard is made while the first is live
C9_Witness ==
    /\ last.op = "create_temp_dir" /\ last.res = "ok"
    /\ last.paths0 # {}
    /\ guards[last.g].created \notin last.paths0

----------------------------------------------------------------------------
(* The guards' lifetimes. *)

\* C10: Drop never runs twice on a guard, and once control has left the
\* scope of a thread (on any exit path) Drop has run exactly once on every
\* guard the scope owned.
C10_EveryGuardReleasedOnce ==
    \A g \in 1..Len(guards) :
        /\ guards[g].drops <= 1
        /\ mode[guards[g].owner] \in {"done", "aborted"} => guards[g].drops = 1

\* What does hold: Drop never runs twice, and a scope that is left without
\* the process aborting has had every guard dropped exactly once.
DroppedOnceUnlessAborted ==
    \A g \in 1..Len(guards) :
        /\ guards[g].drops <= 1
        /\ guards[g].drops = 1 <=> guards[g].status \in {"released", "panicked"}
        /\ mode[guards[g].owner] = "done" => guards[g].drops = 1

----------------------------------------------------------------------------
(* Failing releases. *)

\* C11: a drop of a CurrentDir guard panics exactly when the switch back to
\* the captured path fails; a drop that returns has left the process in the
\* captured directory.
C11_FailedRestorePanics ==
    DroppedDir
        => LET back == std_set_current_dir(last.cwd0, dirs, Abs(last.rec.path))
           IN  /\ ~back.ok <=> last.res = "panic"
               /\ last.res = "ok" => (cwd.alive /\ cwd.path = last.rec.path)
               /\ guards[last.g].drops = 1

\* the captured directory was removed while the guard was live
C11_Witness ==
    /\ DroppedDir /\ last.res = "panic"
    /\ last.rec.path \notin dirs
    /\ cwd.path # last.rec.path

\* C12: a drop of a TmpDir guard panics exactly when its path names no
\* directory (the removal fails); Drop has then run once on the guard, which
\* is not dropped again.
C12_FailedRemovalPanics ==
    DroppedTmp
        => /\ ~last.isdir0 <=> last.res = "panic"
           /\ guards[last.g].drops = 1
           /\ guards[last.g].status = IF last.isdir0 THEN "released" ELSE "panicked"

\* the directory the guard was made with had been removed before the drop
C12_Witness ==
    /\ DroppedTmp /\ last.res = "panic"
    /\ last.rec.path = last.rec.created
    /\ ~last.isdir0

----------------------------------------------------------------------------
(* Guards that are not bound to a variable: the value of the call is a      *)
(* temporary, dropped at the end of the statement that made it (lines 177   *)
(* and 226, and the last lines of the doc tests).  The call and the drop    *)
(* are one step of the thread.                                              *)

\* set_var(key, value);
unbound_set_var(t, key, value) ==
    /\ mode[t] = "running"
    /\ Len(guards) < MaxGuards
    /\ LET rec == CurrentEnv(t, key, previous_val_of(env, key),
                             var_os(env, key), Some(value))
       IN  /\ env' = drop_CurrentEnv(std_set_var(env, key, value), rec)
           /\ guards' = Append(TouchEnv(guards, key), Dropped(rec, "ok"))
           /\ last' = [Event("unbound_set_var", t, Len(guards) + 1, "ok")
                         EXCEPT !.rec = rec, !.n0 = Len(guards)]
    /\ UNCHANGED <<cwd, dirs, files, mode, panicking>>

\* remove_var(key);
unbound_remove_var(t, key) ==
    /\ mode[t] = "running"
    /\ Len(guards) < MaxGuards
    /\ LET rec == CurrentEnv(t, key, previous_val_of(env, key),
                             var_os(env, key), None)
       IN  /\ env' = drop_CurrentEnv(std_remove_var(env, key), rec)
           /\ guards' = Append(TouchEnv(guards, key), Dropped(rec, "ok"))
           /\ last' = [Event("unbound_remove_var", t, Len(guards) + 1, "ok")
                         EXCEPT !.rec = rec, !.n0 = Len(guards)]
    /\ UNCHANGED <<cwd, dirs, files, mode, panicking>>

\* set_current_dir(p).expect(..);  an Err panics in the statement, and so
\* does a Drop that cannot switch back.
unbound_set_current_dir(t, p) ==
    /\ mode[t] = "running"
    /\ Len(guards) < MaxGuards
    /\ LET r    == set_current_dir_result(cwd, dirs, p)
           rec  == CurrentDir(t, r.captured, cwd, r.cwd.path)
           back == drop_CurrentDir(r.cwd, dirs, rec)
           res  == IF r.ok /\ back.ok THEN "ok" ELSE "panic"
       IN  /\ cwd' = IF r.ok THEN back.cwd ELSE r.cwd
           /\ guards' = IF r.ok
                        THEN Append(TouchDir(guards), Dropped(rec, res))
                        ELSE guards
           /\ mode' = IF res = "panic" THEN [mode EXCEPT ![t] = "unwinding"] ELSE mode
           /\ panicking' = IF res = "panic" THEN [panicking EXCEPT ![t] = TRUE]
                           ELSE panicking
           /\ last' = [Event("unbound_set_current_dir", t,
                             IF r.ok THEN Len(guards) + 1 ELSE 0, res)
                         EXCEPT !.rec = IF r.ok THEN rec ELSE NoGuard,
                                !.cwd0 = cwd, !.arg = p, !.n0 = Len(guards)]
    /\ UNCHANGED <<env, dirs, files>>

InitUnbound ==
    /\ env \in EnvStates
    /\ cwd \in {[alive |-> TRUE, path |-> q] : q \in {StartDir, Append(StartDir, "src")}}
    /\ dirs = InitDirs
    /\ files = {}
    /\ guards = <<>>
    /\ mode = [t \in {1} |-> "running"]
    /\ panicking = [t \in {1} |-> FALSE]
    /\ last = NoEvent

NextUnbound ==
    \/ \E t \in Threads, key \in Keys, value \in OsStrings : unbound_set_var(t, key, value)
    \/ \E t \in Threads, key \in Keys : unbound_remove_var(t, key)
    \/ \E t \in Threads, p \in CdArgs : unbound_set_current_dir(t, p)
    \/ \E t \in Threads, key \in Keys, value \in OsStrings : set_var(t, key, value)
    \/ \E t \in Threads : \E g \in Live(t) : drop_now(t, g)
    \/ \E t \in Threads, how \in {"end", "return", "panic"} : leave_scope(t, how)
    \/ \E t \in Threads : unwind(t)
    \/ \E t \in Threads : scope_left(t)

\* statements that make a guard and bind it to nothing
SpecUnbound == InitUnbound /\ [][NextUnbound]_vars

Unbound(op) == last.op = op /\ last.res = "ok"

\* C13: a guard bound to no variable is dropped in the statement that made
\* it: after set_var(k, v); on an unset k, k is unset; after remove_var(k);
\* on k = p, k holds p; after set_current_dir(d); the working directory is
\* the one before the statement.
C13_UnboundGuardReleased ==
    /\ Unbound("unbound_set_var") /\ ~last.rec.pre.some
            => var_os(env, last.rec.key) = None
    /\ Unbound("unbound_remove_var") /\ last.rec.pre.some
            => var_os(env, last.rec.key) = last.rec.pre
    /\ Unbound("unbound_set_current_dir") => cwd = last.cwd0

\* What holds of the three statements: the guard is dropped by the end of
\* the statement, the variable is unset again, a valid-Unicode value is
\* back, and so is the working directory.
UnboundReleasedUtf8 ==
    /\ last.op \in {"unbound_set_var", "unbound_remove_var", "unbound_set_current_dir"}
         /\ last.g # 0
            => guards[last.g].status # "live" /\ guards[last.g].drops = 1
    /\ Unbound("unbound_set_var") /\ ~last.rec.pre.some
            => var_os(env, last.rec.key) = None
    /\ Unbound("unbound_remove_var") /\ last.rec.pre.some /\ IsUtf8(last.rec.pre.val)
            => var_os(env, last.rec.key) = last.rec.pre
    /\ Unbound("unbound_set_current_dir") => cwd = last.cwd0

----------------------------------------------------------------------------
(* Threads.  Two threads of one process share the environment, the working  *)
(* directory and the file system; every call of std is one step, and the    *)
(* steps of the threads interleave freely: the crate takes no lock.         *)

ThreadIds == {1, 2}

\* Two threads that make temporary directories, write into them and drop
\* them; each thread uses the guards it made.
InitTmpThreads ==
    /\ env = [k \in Keys |-> None]
    /\ cwd = [alive |-> TRUE, path |-> StartDir]
    /\ dirs = InitDirs
    /\ files = {}
    /\ guards = <<>>
    /\ mode = [t \in ThreadIds |-> "running"]
    /\ panicking = [t \in ThreadIds |-> FALSE]
    /\ last = NoEvent

NextTmpThreads ==
    \/ \E t \in Threads : create_temp_dir(t)
    \/ \E t \in Threads : \E g \in Live(t) : deref_io(t, g)
    \/ \E t \in Threads : \E g \in Live(t) : drop_now(t, g)
    \/ \E t \in Threads, how \in {"end", "panic"} : leave_scope(t, how)
    \/ \E t \in Threads : unwind(t)
    \/ \E t \in Threads : scope_left(t)

SpecTmpThreads == InitTmpThreads /\ [][NextTmpThreads]_vars

\* the live TmpDir guards other than g
OtherTmp(g) ==
    {h \in 1..Len(guards) :
        h # g /\ guards[h].type = "tmp" /\ guards[h].status = "live"}

\* C14: a step that drops a TmpDir guard leaves every other live guard as
\* it was, with its directory in place and holding what it held, and the
\* drop does not panic, whatever the threads did before.
C14_ReleaseLeavesOthersAlone ==
    [][last'.op = "drop" /\ last'.rec.type = "tmp"
          => /\ last'.res = "ok"
             /\ \A h \in OtherTmp(last'.g) :
                  /\ guards'[h] = guards[h]
                  /\ guards[h].path \in dirs /\ guards[h].path \in dirs'
                  /\ Inside(dirs' \cup files', guards[h].path)
                         = Inside(dirs \cup files, guards[h].path)]_vars

\* a thread dropped a directory with something in it while the other
\* thread held a directory with something in it
C14_Witness ==
    /\ last.op = "drop" /\ last.rec.type = "tmp" /\ last.res = "ok"
    /\ last.paths0 # {}
    /\ \E h \in OtherTmp(last.g) :
         /\ guards[h].owner # last.t
         /\ Inside(dirs \cup files, guards[h].path) # {}

----------------------------------------------------------------------------
(* set_current_dir across threads: the body makes two calls of std, and     *)
(* another thread can run between them.                                     *)

\* line 41: let current_dir = std::env::current_dir()?;
capture_current_dir(t, p) ==
    /\ mode[t] = "running"
    /\ Len(guards) < MaxGuards
    /\ LET cur == current_dir(cwd)
       IN  /\ guards' = IF cur.ok
                        THEN Append(guards,
                                    [CurrentDir(t, cur.path, NoCwd, NoPath)
                                       EXCEPT !.status = "capturing", !.arg = p])
                        ELSE guards
           /\ mode' = IF cur.ok THEN [mode EXCEPT ![t] = "switching"] ELSE mode
           /\ last' = [Event("current_dir", t, 0, IF cur.ok THEN "ok" ELSE "err")
                         EXCEPT !.cwd0 = cwd, !.arg = p, !.n0 = Len(guards)]
    /\ UNCHANGED <<env, cwd, dirs, files, panicking>>

\* as if the guard were built from the directory read after the switch
held_path_after(captured, sw) == sw.cwd.path

\* line 43: Ok(CurrentDir(current_dir)): the guard holds the path of line 41
held_path(captured, sw) == captured

\* lines 42 and 43: std::env::set_current_dir(&path)?; Ok(CurrentDir(..))
switch_current_dir(t) ==
    /\ mode[t] = "switching"
    /\ \E g \in 1..Len(guards) :
         /\ guards[g].owner = t /\ guards[g].status = "capturing"
         /\ LET rec == guards[g]
                sw  == std_set_current_dir(cwd, dirs, rec.arg)
            IN  /\ cwd' = sw.cwd
                /\ guards' = IF sw.ok
                             THEN [TouchDir(guards) EXCEPT ![g] =
                                      CurrentDir(t, held_path(rec.path, sw),
                                                 cwd, sw.cwd.path)]
                             ELSE [guards EXCEPT ![g] = NoGuard]
                /\ last' = [Event("switch", t, IF sw.ok THEN g ELSE 0,
                                  IF sw.ok THEN "ok" ELSE "err")
                              EXCEPT !.rec = rec, !.cwd0 = cwd, !.arg = rec.arg,
                                     !.n0 = Len(guards)]
    /\ mode' = [mode EXCEPT ![t] = "running"]
    /\ UNCHANGED <<env, dirs, files, panicking>>

InitDirThreads ==
    /\ env = [k \in Keys |-> None]
    /\ cwd = [alive |-> TRUE, path |-> StartDir]
    /\ dirs = InitDirs
    /\ files = {}
    /\ guards = <<>>
    /\ mode = [t \in ThreadIds |-> "running"]
    /\ panicking = [t \in ThreadIds |-> FALSE]
    /\ last = NoEvent

NextDirThreads ==
    \/ \E t \in Threads, p \in CdArgs : capture_current_dir(t, p)
    \/ \E t \in Threads : switch_current_dir(t)
    \/ \E t \in Threads : \E g \in Live(t) : drop_now(t, g)
    \/ \E t \in Threads, how \in {"end", "panic"} : leave_scope(t, how)
    \/ \E t \in Threads : unwind(t)
    \/ \E t \in Threads : scope_left(t)

SpecDirThreads == InitDirThreads /\ [][NextDirThreads]_vars

\* the last step was the switch of a set_current_dir call that returned Ok
Switched == last.op = "switch" /\ last.res = "ok"

\* C15 as stated: the path a CurrentDir guard holds is the working
\* directory its switch replaced, whatever other threads did.
C15_CapturedAtSwitch ==
    Switched => guards[last.g].path = last.cwd0.path

\* C15: the path a CurrentDir guard holds is the working directory read
\* before the switch; it is the directory the switch replaced when no other
\* thread changed the working directory between the two calls.
C15_CapturedBeforeSwitch ==
    Switched
        => /\ guards[last.g].path = last.rec.path
           /\ last.rec.clean => guards[last.g].path = last.cwd0.path

\* a call that moved the process, with nothing between its two calls,
\* while the other thread held a guard
C15_Witness ==
    /\ Switched /\ last.rec.clean
    /\ guards[last.g].went # guards[last.g].path
    /\ \E h \in LiveOf("dir") : guards[h].owner # last.t

\* the other thread changed directory between the two calls
C15_WitnessRaced ==
    /\ Switched /\ ~last.rec.clean
    /\ guards[last.g].path # last.cwd0.path

----------------------------------------------------------------------------
(* set_var and remove_var across threads: the body reads the variable and   *)
(* then writes it, in two calls of std; Drop writes it in one.              *)

\* what a call is about to leave in the variable: Some(value) for
\* set_var(key, value), None for remove_var(key); the threads write
\* non-empty values
Puts == {None} \cup {Some(v) : v \in OsStrings \ {<<>>}}

\* lines 75 and 95: let previous_val = std::env::var(key).ok();
capture_var(t, key, put) ==
    /\ mode[t] = "running"
    /\ Len(guards) < MaxGuards
    /\ guards' = Append(guards,
                        [CurrentEnv(t, key, previous_val_of(env, key),
                                    var_os(env, key), put)
                           EXCEPT !.status = "capturing"])
    /\ mode' = [mode EXCEPT ![t] = "switching"]
    /\ last' = [Event("var", t, 0, "ok") EXCEPT !.n0 = Len(guards)]
    /\ UNCHANGED <<env, cwd, dirs, files, panicking>>

\* lines 76-77 and 96-97: std::env::set_var(key, value) or
\* std::env::remove_var(key), then CurrentEnv(key.to_owned(), previous_val)
write_var(t) ==
    /\ mode[t] = "switching"
    /\ \E g \in 1..Len(guards) :
         /\ guards[g].owner = t /\ guards[g].status = "capturing"
         /\ guards[g].type = "env"
         /\ LET rec == guards[g]
            IN  /\ env' = IF rec.put.some
                          THEN std_set_var(env, rec.key, rec.put.val)
                          ELSE std_remove_var(env, rec.key)
                /\ guards' = [TouchEnv(guards, rec.key) EXCEPT ![g] =
                                 [rec EXCEPT !.status = "live"]]
                /\ last' = [Event(IF rec.put.some THEN "set_var" ELSE "remove_var",
                                  t, g, "ok")
                              EXCEPT !.rec = rec, !.n0 = Len(guards)]
    /\ mode' = [mode EXCEPT ![t] = "running"]
    /\ UNCHANGED <<cwd, dirs, files, panicking>>

InitEnvThreads ==
    /\ env \in EnvStates
    /\ cwd = [alive |-> TRUE, path |-> StartDir]
    /\ dirs = InitDirs
    /\ files = {}
    /\ guards = <<>>
    /\ mode = [t \in ThreadIds |-> "running"]
    /\ panicking = [t \in ThreadIds |-> FALSE]
    /\ last = NoEvent

NextEnvThreads ==
    \/ \E t \in Threads, key \in Keys, put \in Puts : capture_var(t, key, put)
    \/ \E t \in Threads : write_var(t)
    \/ \E t \in Threads : \E g \in Live(t) : drop_now(t, g)
    \/ \E t \in Threads : leave_scope(t, "end")
    \/ \E t \in Threads : unwind(t)
    \/ \E t \in Threads : scope_left(t)

SpecEnvThreads == InitEnvThreads /\ [][NextEnvThreads]_vars

\* C16: a guard whose lifetime no other write to its variable falls into
\* (the lifetimes of the guards on a variable are serialised) leaves, when
\* it is dropped, the variable as it was before the guard was made.
C16_SerialisedRestores ==
    DroppedEnv /\ last.rec.clean
        => var_os(env, last.rec.key) = last.rec.pre

\* What holds of serialised lifetimes: an unset variable and a
\* valid-Unicode value are restored.
SerialisedRestoresUtf8 ==
    DroppedEnv /\ last.rec.clean
               /\ (last.rec.pre.some => IsUtf8(last.rec.pre.val))
        => var_os(env, last.rec.key) = last.rec.pre

\* every guard on `key` has been dropped, by both threads
AllReleased(key) ==
    /\ \A g \in 1..Len(guards) : guards[g].status \in {"released", "none"}
    /\ \E g, h \in 1..Len(guards) : guards[g].owner # guards[h].owner
    /\ DroppedEnv /\ last.rec.key = key

\* The race of C16: TEST_TMP_ENV starts unset, two threads each make and
\* drop a guard on it, and it is left with a value.
RaceLosesState ==
    /\ AllReleased("TEST_TMP_ENV")
    /\ Len(guards) = 2
    /\ var_os(env, "TEST_TMP_ENV") # None
    /\ var_os(env, "TEST_TMP_ENV_PREVIOUS") # Some(<<255>>)

----------------------------------------------------------------------------
(* The path a TmpDir holds. *)

\* C17: a TmpDir guard holds the path create_temp_dir made for it as long
\* as it lives, whatever the caller does through Deref and DerefMut, and
\* that path is the one its Drop removes.
C17_RemovesCreatedDir ==
    /\ \A g \in LiveOf("tmp") : guards[g].path = guards[g].created
    /\ DroppedTmp => last.rec.path = last.rec.created

\* Deref alone: a step that reads the path and writes into the directory
\* leaves every guard as it was.
DerefLeavesPath == [][last'.op = "deref_io" => guards' = guards]_vars

----------------------------------------------------------------------------
(* Nested guards.  Every guard is made in a scope of its own inside the     *)
(* scope of the guard before it, so the guards are dropped newest first.    *)

\* the innermost scope ends: its guard is dropped
inner_scope_end(t) ==
    /\ Live(t) # {}
    /\ drop_now(t, Newest(Live(t)))

NextNested ==
    \/ \E t \in Threads, key \in Keys, value \in OsStrings : set_var(t, key, value)
    \/ \E t \in Threads, key \in Keys : remove_var(t, key)
    \/ \E t \in Threads, p \in CdArgs : set_current_dir(t, p)
    \/ \E t \in Threads : inner_scope_end(t)
    \/ \E t \in Threads : leave_scope(t, "panic")
    \/ \E t \in Threads : unwind(t)
    \/ \E t \in Threads : scope_left(t)

SpecNested == InitUnbound /\ [][NextNested]_vars

\* C18: with guards dropped in the reverse of the order they were made in,
\* every drop leaves the variable, or the working directory, as it was just
\* before the dropped guard was made; so the last drop leaves it as it was
\* before the first guard.
C18_LifoRestores ==
    /\ DroppedEnv => var_os(env, last.rec.key) = last.rec.pre
    /\ DroppedDir => last.res = "ok" /\ cwd = last.rec.cwd0

\* What holds of nested guards: the working directory, an unset variable
\* and a valid-Unicode value are restored by every drop.
LifoRestoresUtf8 ==
    /\ DroppedEnv /\ (last.rec.pre.some => IsUtf8(last.rec.pre.val))
          => var_os(env, last.rec.key) = last.rec.pre
    /\ DroppedDir => last.res = "ok" /\ cwd = last.rec.cwd0

\* three guards deep on one variable, the outermost just dropped
NestedThreeDeep ==
    /\ DroppedEnv /\ last.g = 1 /\ Len(guards) = 3
    /\ \A g \in 1..3 : guards[g].type = "env" /\ guards[g].status = "released"
    /\ last.rec.put.some /\ ~IsUtf8(last.rec.put.val)

----------------------------------------------------------------------------
(* What a guard leaves alone.  The three kinds of guard are used together   *)
(* in one scope; the callers write the value "a" and leave the paths of the *)
(* TmpDirs as create_temp_dir made them.                                    *)

InitFrame ==
    /\ env = [k \in Keys |-> IF k = "TEST_TMP_ENV" THEN None ELSE Some(<<97>>)]
    /\ cwd = [alive |-> TRUE, path |-> StartDir]
    /\ dirs = InitDirs
    /\ files = {}
    /\ guards = <<>>
    /\ mode = [t \in {1} |-> "running"]
    /\ panicking = [t \in {1} |-> FALSE]
    /\ last = NoEvent

NextFrame ==
    \/ \E t \in Threads, key \in Keys : set_var(t, key, <<97>>)
    \/ \E t \in Threads, key \in Keys : remove_var(t, key)
    \/ \E t \in Threads, p \in CdArgs : set_current_dir(t, p)
    \/ \E t \in Threads : create_temp_dir(t)
    \/ \E t \in Threads : \E g \in Live(t) : deref_io(t, g)
    \/ \E t \in Threads : \E g \in Live(t) : drop_now(t, g)
    \/ \E t \in Threads : leave_scope(t, "end")
    \/ \E t \in Threads : unwind(t)
    \/ \E t \in Threads : scope_left(t)

SpecFrame == InitFrame /\ [][NextFrame]_vars

\* the paths of S that do not lie at or below p
Outside(S, p) == {q \in S : ~IsPrefix(p, q)}

\* C19: a step that makes or drops a CurrentEnv guard on k changes no other
\* variable, nor the working directory, nor a directory or file; a step
\* that makes or drops a CurrentDir guard changes no variable; a step that
\* makes or drops a TmpDir guard changes no variable, does not move the
\* process, and changes nothing outside the path the guard holds.
C19_Frame ==
    [][/\ last'.op \in {"set_var", "remove_var"}
            => /\ \A k \in Keys \ {guards'[last'.g].key} : env'[k] = env[k]
               /\ cwd' = cwd /\ dirs' = dirs /\ files' = files
       /\ last'.op = "drop" /\ last'.rec.type = "env"
            => /\ \A k \in Keys \ {last'.rec.key} : env'[k] = env[k]
               /\ cwd' = cwd /\ dirs' = dirs /\ files' = files
       /\ \/ last'.op = "set_current_dir"
          \/ last'.op = "drop" /\ last'.rec.type = "dir"
            => env' = env
       /\ last'.op = "create_temp_dir"
            => /\ env' = env /\ cwd' = cwd
               /\ Outside(dirs', last'.arg.comps) = Outside(dirs, last'.arg.comps)
               /\ Outside(files', last'.arg.comps) = Outside(files, last'.arg.comps)
       /\ last'.op = "drop" /\ last'.rec.type = "tmp"
            => /\ env' = env
               /\ cwd'.path = cwd.path
               /\ ~IsPrefix(last'.rec.path, cwd.path) => cwd' = cwd
               /\ Outside(dirs', last'.rec.path) = Outside(dirs, last'.rec.path)
               /\ Outside(files', last'.rec.path) = Outside(files, last'.rec.path)]_vars

\* a TmpDir was dropped while a variable was set, the process had been
\* moved by a live CurrentDir guard and another temporary directory existed
C19_Witness ==
    /\ DroppedTmp /\ last.res = "ok"
    /\ \E k \in Keys : env[k].some
    /\ \E g \in LiveOf("dir") : guards[g].went = cwd.path /\ guards[g].path # cwd.path
    /\ Outside(Inside(dirs, temp_dir), last.rec.path) # {}

\* a CurrentEnv guard was dropped while the other variable was set and a
\* temporary directory existed
C19_WitnessEnv ==
    /\ DroppedEnv
    /\ \E k \in Keys \ {last.rec.key} : env[k].some
    /\ Inside(dirs, temp_dir) # {}

----------------------------------------------------------------------------
(* The tests of the crate on CurrentEnv (lines 169-214).  The test harness  *)
(* runs the #[test] functions on threads of one process, TestThreads of     *)
(* them at a time and in any order, and the tests take no lock.  A test is  *)
(* "queued" until the harness starts it and then at the line it executes    *)
(* next: mode[t] is the label of a statement; a statement that makes a      *)
(* guard takes two steps (the read and the write of set_var / remove_var),  *)
(* every other statement one.  A failed assertion panics and the test       *)
(* unwinds.                                                                 *)

\* "myvalue", "previous_value" and "myvaluedropped" in ASCII
myvalue == <<109, 121, 118, 97, 108, 117, 101>>

previous_value == <<112, 114, 101, 118, 105, 111, 117, 115, 95, 118, 97, 108, 117, 101>>

myvaluedropped == myvalue \o <<100, 114, 111, 112, 112, 101, 100>>

TestKeys == Keys \cup {"TEST_TMP_ENV_DROPPED"}

Ins(op, key, val, next) == [op |-> op, key |-> key, val |-> val, next |-> next]

\* fn test_env()
test_env ==
    [l \in {"171", "171w", "172", "173", "174", "177", "177w", "177d", "178", "179"} |->
       CASE l = "171"  -> Ins("guard", "TEST_TMP_ENV", Some(myvalue), "171w")
         [] l = "171w" -> Ins("write", "", None, "172")
         [] l = "172"  -> Ins("assert", "TEST_TMP_ENV", Some(myvalue), "173")
         [] l = "173"  -> Ins("drop", "", None, "174")
         [] l = "174"  -> Ins("assert", "TEST_TMP_ENV", None, "177")
         [] l = "177"  -> Ins("guard", "TEST_TMP_ENV_DROPPED", Some(myvaluedropped), "177w")
         [] l = "177w" -> Ins("write", "", None, "177d")
         [] l = "177d" -> Ins("drop", "", None, "178")
         [] l = "178"  -> Ins("assert", "TEST_TMP_ENV_DROPPED", None, "179")
         [] l = "179"  -> Ins("end", "", None, "")]

\* fn test_env_with_previous_value()
test_env_with_previous_value ==
    [l \in {"183", "185", "185w", "186", "190", "191", "195"} |->
       CASE l = "183"  -> Ins("std_set_var", "TEST_TMP_ENV_PREVIOUS", Some(previous_value), "185")
         [] l = "185"  -> Ins("guard", "TEST_TMP_ENV_PREVIOUS", Some(myvalue), "185w")
         [] l = "185w" -> Ins("write", "", None, "186")
         [] l = "186"  -> Ins("assert", "TEST_TMP_ENV_PREVIOUS", Some(myvalue), "190")
         [] l = "190"  -> Ins("drop", "", None, "191")
         [] l = "191"  -> Ins("assert", "TEST_TMP_ENV_PREVIOUS", Some(previous_value), "195")
         [] l = "195"  -> Ins("end", "", None, "")]

\* fn test_remove_env(): the guard lives to the end of the function
test_remove_env ==
    [l \in {"199", "199w", "200", "201"} |->
       CASE l = "199"  -> Ins("guard", "TEST_TMP_ENV", None, "199w")
         [] l = "199w" -> Ins("write", "", None, "200")
         [] l = "200"  -> Ins("assert", "TEST_TMP_ENV", None, "201")
         [] l = "201"  -> Ins("end", "", None, "")]

\* fn test_remove_env_with_previous_value()
test_remove_env_with_previous_value ==
    [l \in {"205", "207", "207w", "208", "209", "210", "214"} |->
       CASE l = "205"  -> Ins("std_set_var", "TEST_TMP_ENV_PREVIOUS", Some(previous_value), "207")
         [] l = "207"  -> Ins("guard", "TEST_TMP_ENV_PREVIOUS", None, "207w")
         [] l = "207w" -> Ins("write", "", None, "208")
         [] l = "208"  -> Ins("assert", "TEST_TMP_ENV_PREVIOUS", None, "209")
         [] l = "209"  -> Ins("drop", "", None, "210")
         [] l = "210"  -> Ins("assert", "TEST_TMP_ENV_PREVIOUS", Some(previous_value), "214")
         [] l = "214"  -> Ins("end", "", None, "")]

\* every statement of the four tests, by label
Statements ==
    test_env @@ test_env_with_previous_value @@ test_remove_env
        @@ test_remove_env_with_previous_value

\* thread t is at a statement of kind op
At(t, op) == mode[t] \in DOMAIN Statements /\ Statements[mode[t]].op = op

Goto(t) == [mode EXCEPT ![t] = Statements[mode[t]].next]

\* the first statement of each test
FirstStatement == <<"171", "183", "199", "205">>

\* the tests that have been started and have not finished
Running == {u \in Threads : mode[u] \notin {"queued", "done", "aborted"}}

\* the harness starts a test on a free thread
test_start(t) ==
    /\ mode[t] = "queued"
    /\ Cardinality(Running) < TestThreads
    /\ mode' = [mode EXCEPT ![t] = FirstStatement[t]]
    /\ last' = [Event("start", t, 0, "ok") EXCEPT !.n0 = Len(guards)]
    /\ UNCHANGED <<env, cwd, dirs, files, guards, panicking>>

\* std::env::set_var(key, value), lines 183 and 205
test_std_set_var(t) ==
    /\ At(t, "std_set_var")
    /\ LET i == Statements[mode[t]]
       IN  /\ env' = std_set_var(env, i.key, i.val.val)
           /\ guards' = TouchEnv(guards, i.key)
    /\ mode' = Goto(t)
    /\ last' = [Event("std_set_var", t, 0, "ok") EXCEPT !.n0 = Len(guards)]
    /\ UNCHANGED <<cwd, dirs, files, panicking>>

\* let _tmp_env = set_var(..) / remove_var(..): the read of line 75 / 95
test_guard(t) ==
    /\ At(t, "guard")
    /\ LET i == Statements[mode[t]]
       IN  guards' = Append(guards,
                            [CurrentEnv(t, i.key, previous_val_of(env, i.key),
                                        var_os(env, i.key), i.val)
                               EXCEPT !.status = "capturing"])
    /\ mode' = Goto(t)
    /\ last' = [Event("var", t, 0, "ok") EXCEPT !.n0 = Len(guards)]
    /\ UNCHANGED <<env, cwd, dirs, files, panicking>>

\* the write of lines 76-77 / 96-97: the guard is live
test_write(t) ==
    /\ At(t, "write")
    /\ \E g \in 1..Len(guards) :
         /\ guards[g].owner = t /\ guards[g].status = "capturing"
         /\ LET rec == guards[g]
            IN  /\ env' = IF rec.put.some
                          THEN std_set_var(env, rec.key, rec.put.val)
                          ELSE std_remove_var(env, rec.key)
                /\ guards' = [TouchEnv(guards, rec.key) EXCEPT ![g] =
                                 [rec EXCEPT !.status = "live"]]
                /\ last' = [Event(IF rec.put.some THEN "set_var" ELSE "remove_var",
                                  t, g, "ok")
                              EXCEPT !.rec = rec, !.n0 = Len(guards)]
    /\ mode' = Goto(t)
    /\ UNCHANGED <<cwd, dirs, files, panicking>>

\* assert_eq!(std::env::var(key), Ok(String::from(v))) for Some(v),
\* assert!(std::env::var(key).is_err()) for None
test_assert(t) ==
    /\ At(t, "assert")
    /\ LET i  == Statements[mode[t]]
           ok == env_var_ok(env, i.key) = i.val
       IN  /\ mode' = IF ok THEN Goto(t) ELSE [mode EXCEPT ![t] = "unwinding"]
           /\ panicking' = IF ok THEN panicking ELSE [panicking EXCEPT ![t] = TRUE]
           /\ last' = [Event("assert", t, 0, IF ok THEN "ok" ELSE "panic")
                         EXCEPT !.n0 = Len(guards)]
    /\ UNCHANGED <<env, cwd, dirs, files, guards>>

\* the end of the block that holds the guard, or of the statement that
\* made a temporary
test_drop(t) ==
    /\ At(t, "drop")
    /\ Live(t) # {}
    /\ LET g == Newest(Live(t))
       IN  RunDrop(t, g, DropOutcome(guards[g]))
    /\ mode' = Goto(t)
    /\ UNCHANGED panicking

\* the end of the test function: what is still live is dropped
test_end(t) ==
    /\ At(t, "end")
    /\ mode' = [mode EXCEPT ![t] = "unwinding"]
    /\ last' = [Event("end", t, 0, "ok") EXCEPT !.n0 = Len(guards)]
    /\ UNCHANGED <<env, cwd, dirs, files, guards, panicking>>

\* the four tests are queued; the variables of the tests are unset
InitTests ==
    /\ env = [k \in TestKeys |-> None]
    /\ cwd = [alive |-> TRUE, path |-> StartDir]
    /\ dirs = InitDirs
    /\ files = {}
    /\ guards = <<>>
    /\ mode = [t \in 1..4 |-> "queued"]
    /\ panicking = [t \in 1..4 |-> FALSE]
    /\ last = NoEvent

NextTests ==
    \/ \E t \in Threads : test_start(t)
    \/ \E t \in Threads : test_std_set_var(t)
    \/ \E t \in Threads : test_guard(t)
    \/ \E t \in Threads : test_write(t)
    \/ \E t \in Threads : test_assert(t)
    \/ \E t \in Threads : test_drop(t)
    \/ \E t \in Threads : test_end(t)
    \/ \E t \in Threads : unwind(t)
    \/ \E t \in Threads : scope_left(t)

SpecTests == InitTests /\ [][NextTests]_vars

\* C20: every assertion of the tests holds, however the threads of the
\* tests interleave.
C20_AssertionsHold == last.op = "assert" => last.res = "ok"

====
